---- MODULE Spec2Model ----
(***************************************************************************)
(* Model of rust-crypto-microservices:                                     *)
(*   - bench_client   : the concurrent orchestrator (semaphore-bounded     *)
(*                      batch of HTTP calls), the result aggregator and    *)
(*                      the suite command;                                 *)
(*   - lattice_service: the /kem_bench handler, its twelve benchmark       *)
(*                      routines and its statistics;                       *)
(*   - zk_service     : the /zk_prove_bench and /zk_verify_bench handlers  *)
(*                      and their statistics.                              *)
(*                                                                         *)
(* Three specifications share the variables:                               *)
(*   Spec / FairSpec : one kem | zk-prove | zk-verify command of the       *)
(*                     client (FairSpec adds the scheduler's fairness);    *)
(*   ServerSpec      : one request handled by one of the three endpoints;  *)
(*   SuiteSpec       : the client's suite command against both services.   *)
(*                                                                         *)
(* f64 values are modelled as exact rationals [num, den] in lowest terms   *)
(* (rounding is not modelled); den = 0 encodes the two non-finite values   *)
(* the code can produce or start a fold from: NaN (0/0) and f64::MAX,      *)
(* which is above every value of the model.  TLC's integers are 32 bit, so *)
(* a u32 input is drawn from values up to 2^31 - 1.                        *)
(***************************************************************************)
EXTENDS Integers, Sequences, FiniteSets, TLC

\* ------------------------------------------------------------- bounds
\* Largest --requests and --concurrency the client is run with.
MaxRequests == 3
MaxConcurrency == 3
\* Sampling runs of at most this many iterations draw every duration
\* sequence over Durations; longer runs draw the constant ones.
MaxSampleLen == 2

\* ------------------------------------------------- program constants
KEM_MAX_ITERATIONS == 10000
ZK_PROVE_MAX_ITERATIONS == 1000
ZK_VERIFY_MAX_ITERATIONS == 5000
STATUS_OK == 200
STATUS_BAD_REQUEST == 400

\* ---------------------------------------------------------- variables
VARIABLES
    \* bench_client: one command
    command,        \* "kem" | "zk_prove" | "zk_verify" | "suite" | "none"
    requests,       \* --requests
    concurrency,    \* --concurrency
    pc,             \* "issue" | "collect" | "returned" | "emitted" (| "idle")
    permits,        \* free permits of the semaphore
    handles,        \* Vec of join handles, in spawn order (task numbers)
    task,           \* task -> "unspawned" | "in_flight" | "send_returned" | "finished"
    res,            \* task -> "none" | "response" | "transport_err" | "join_err"
    next_handle,    \* handles already awaited by the collecting loop
    results,        \* Vec of parsed responses
    errors,         \* failure counter
    bench_results,  \* main's Vec<BenchmarkResult>
    output,         \* what output_results emitted
    \* services: one request
    s_pc,           \* "Idle" | "Received" | "Sampled" | "Reduced" | "Responded" | "Rejected" | "Aborted"
    s_endpoint,     \* "kem_bench" | "zk_prove_bench" | "zk_verify_bench" | "none"
    s_req,          \* the request body
    s_env,          \* what the run meets: the durations measured, the failing iteration
    s_iterations,   \* the resolved iteration count
    s_invoked,      \* the benchmark routine that ran and the algorithms it used
    s_timings,      \* the sample sequence
    s_stats,        \* the reduced statistics
    s_resp,         \* the HTTP response
    s_phases,       \* history of s_pc
    \* bench_client: suite command
    suite_k,        \* benchmarks of the suite already run
    kem_iterations, \* --kem-iterations
    zk_iterations,  \* --zk-iterations
    issued          \* history of the requests the suite sent

clientVars == <<command, requests, concurrency, pc, permits, handles, task,
                res, next_handle, results, errors, bench_results, output>>
serverVars == <<s_pc, s_endpoint, s_req, s_env, s_iterations, s_invoked,
                s_timings, s_stats, s_resp, s_phases>>
suiteVars == <<suite_k, kem_iterations, zk_iterations, issued>>
vars == <<clientVars, serverVars, suiteVars>>

\* --------------------------------------------------------------- f64
RECURSIVE GCD(_, _)
GCD(a, b) == IF b = 0 THEN a ELSE GCD(b, a % b)

Norm(n, d) == LET g == GCD(n, d) IN [num |-> n \div g, den |-> d \div g]

F(n) == [num |-> n, den |-> 1]
NaN == [num |-> 0, den |-> 0]
F64_MAX == [num |-> 1, den |-> 0]
IsNaN(a) == a.num = 0 /\ a.den = 0

\* a < b; false when either side is NaN, true for finite a < F64_MAX.
FLt(a, b) == a.num * b.den < b.num * a.den
FLe(a, b) == ~IsNaN(a) /\ ~IsNaN(b) /\ ~FLt(b, a)
FGt(a, b) == FLt(b, a)

FAdd(a, b) ==
    IF IsNaN(a) \/ IsNaN(b) THEN NaN
    ELSE Norm(a.num * b.den + b.num * a.den, a.den * b.den)

\* a / b for finite a, b >= 0; 0/0 is NaN.
FDiv(a, b) ==
    IF IsNaN(a) \/ IsNaN(b) THEN NaN
    ELSE IF b.num = 0 THEN (IF a.num = 0 THEN NaN ELSE F64_MAX)
    ELSE Norm(a.num * b.den, a.den * b.num)

\* f64::min / f64::max: the other operand when one is NaN.
f64_min(a, b) == IF IsNaN(a) THEN b ELSE IF IsNaN(b) THEN a
                 ELSE IF FLt(b, a) THEN b ELSE a
f64_max(a, b) == IF IsNaN(a) THEN b ELSE IF IsNaN(b) THEN a
                 ELSE IF FLt(a, b) THEN b ELSE a

\* ------------------------------------------------- sequence helpers
Range(s) == {s[i] : i \in DOMAIN s}

\* timings.iter().sum::<u128>(); integer addition is associative, so the
\* halving recursion gives the left fold's value (and keeps the evaluation
\* depth logarithmic for 10000 samples).
RECURSIVE SumRange(_, _, _)
SumRange(s, lo, hi) ==
    IF lo > hi THEN 0
    ELSE IF lo = hi THEN s[lo]
    ELSE LET mid == (lo + hi) \div 2
         IN  SumRange(s, lo, mid) + SumRange(s, mid + 1, hi)

\* timings.iter().min() / .max() of a non-empty slice, by the same halving.
RECURSIVE MinRange(_, _, _)
MinRange(s, lo, hi) ==
    IF lo = hi THEN s[lo]
    ELSE LET mid == (lo + hi) \div 2
             a == MinRange(s, lo, mid)
             b == MinRange(s, mid + 1, hi)
         IN  IF b < a THEN b ELSE a

RECURSIVE MaxRange(_, _, _)
MaxRange(s, lo, hi) ==
    IF lo = hi THEN s[lo]
    ELSE LET mid == (lo + hi) \div 2
             a == MaxRange(s, lo, mid)
             b == MaxRange(s, mid + 1, hi)
         IN  IF b > a THEN b ELSE a

iter_sum(s) == SumRange(s, 1, Len(s))
\* Mutant of iter_min: the first sample.
iter_min_First(s) == s[1]
iter_min(s) == MinRange(s, 1, Len(s))
iter_max(s) == MaxRange(s, 1, Len(s))

\* sorted.sort_unstable(): the ascending arrangement of s, built value by
\* value from the smallest: each value as often as it occurs in s.
RECURSIVE SortedBlocks(_, _)
SortedBlocks(s, vals) ==
    IF vals = {} THEN <<>>
    ELSE LET v == CHOOSE m \in vals : \A x \in vals : m <= x
             count == Cardinality({i \in DOMAIN s : s[i] = v})
         IN  [i \in 1..count |-> v] \o SortedBlocks(s, vals \ {v})

sort_unstable(s) == SortedBlocks(s, Range(s))

\* Mutant of percentile_index: always the last index.
percentile_index_Last(len, pct) == len - 1

\* ((len as f64) * 0.95) as usize.  0.95 is not a binary fraction, but the
\* product rounds to the exact integer whenever len * 95 / 100 is one, so
\* the truncation equals the integer quotient.
percentile_index(len, pct) == (len * pct) \div 100

\* ------------------------------------------ lattice_service statistics
compute_p95(timings) ==
    IF timings = <<>> THEN F(0)
    ELSE LET sorted == sort_unstable(timings)
             idx0 == percentile_index(Len(sorted), 95)
             idx == IF idx0 < Len(sorted) - 1 THEN idx0 ELSE Len(sorted) - 1
         IN  F(sorted[idx + 1])

kem_compute_stats(timings) ==
    LET sum == iter_sum(timings)
        avg == FDiv(F(sum), F(Len(timings)))
        min == IF timings = <<>> THEN F(0) ELSE F(iter_min(timings))
        max == IF timings = <<>> THEN F(0) ELSE F(iter_max(timings))
        p95 == compute_p95(timings)
        throughput == IF FGt(avg, F(0)) THEN FDiv(F(1000000), avg) ELSE F(0)
    IN  [avg |-> avg, min |-> min, max |-> max, p95 |-> p95,
         throughput |-> throughput]

\* ----------------------------------------------- zk_service statistics
compute_percentile(timings, pct) ==
    LET sorted == sort_unstable(timings)
        idx0 == percentile_index(Len(sorted), pct)
        idx == IF idx0 < Len(sorted) - 1 THEN idx0 ELSE Len(sorted) - 1
    IN  F(sorted[idx + 1])

zk_compute_stats(timings_us) ==
    IF timings_us = <<>>
    THEN [avg |-> F(0), min |-> F(0), max |-> F(0), p95 |-> F(0),
          throughput |-> F(0)]
    ELSE LET sum == iter_sum(timings_us)
             avg_us == FDiv(F(sum), F(Len(timings_us)))
             min_us == F(iter_min(timings_us))
             max_us == F(iter_max(timings_us))
             p95_us == compute_percentile(timings_us, 95)
             avg_ms == FDiv(avg_us, F(1000))
             throughput == IF FGt(avg_ms, F(0)) THEN FDiv(F(1000), avg_ms)
                           ELSE F(0)
         IN  [avg |-> avg_ms, min |-> FDiv(min_us, F(1000)),
              max |-> FDiv(max_us, F(1000)), p95 |-> FDiv(p95_us, F(1000)),
              throughput |-> throughput]

\* ------------------------------------------------- bench_client: aggregation
ZeroStats == [avg |-> F(0), min |-> F(0), max |-> F(0), p95 |-> F(0),
              throughput |-> F(0)]

\* results.iter().map(|r| r.<field>).sum::<f64>()
RECURSIVE sum_field(_, _, _)
sum_field(rs, field, k) ==
    IF k = 0 THEN F(0) ELSE FAdd(sum_field(rs, field, k - 1), rs[k][field])

\* results.iter().map(|r| r.<field>).fold(f64::MAX, f64::min)
RECURSIVE fold_min(_, _, _)
fold_min(rs, field, k) ==
    IF k = 0 THEN F64_MAX ELSE f64_min(fold_min(rs, field, k - 1), rs[k][field])

\* Mutant of fold_max: the first response's value, nothing folded.
fold_max_First(rs, field, k) == IF k = 0 THEN F(0) ELSE rs[1][field]

\* results.iter().map(|r| r.<field>).fold(0.0, f64::max)
RECURSIVE fold_max(_, _, _)
fold_max(rs, field, k) ==
    IF k = 0 THEN F(0) ELSE f64_max(fold_max(rs, field, k - 1), rs[k][field])

\* Mutant of kem_aggregate: the minimum is folded from 0.0, like the maximum.
kem_aggregate_MinFromZero(rs) ==
    IF rs # <<>>
    THEN LET n == Len(rs)
             avg == FDiv(sum_field(rs, "avg", n), F(n))
             min == fold_max(rs, "min", n)
             max == fold_max(rs, "max", n)
             p95 == FDiv(sum_field(rs, "p95", n), F(n))
             tp == FDiv(sum_field(rs, "throughput", n), F(n))
         IN  [avg |-> FDiv(avg, F(1000)), min |-> FDiv(min, F(1000)),
              max |-> FDiv(max, F(1000)), p95 |-> FDiv(p95, F(1000)),
              throughput |-> tp]
    ELSE ZeroStats

\* run_kem_benchmark: microseconds of the responses, milliseconds reported.
kem_aggregate(rs) ==
    IF rs # <<>>
    THEN LET n == Len(rs)
             avg == FDiv(sum_field(rs, "avg", n), F(n))
             min == fold_min(rs, "min", n)
             max == fold_max(rs, "max", n)
             p95 == FDiv(sum_field(rs, "p95", n), F(n))
             tp == FDiv(sum_field(rs, "throughput", n), F(n))
         IN  [avg |-> FDiv(avg, F(1000)), min |-> FDiv(min, F(1000)),
              max |-> FDiv(max, F(1000)), p95 |-> FDiv(p95, F(1000)),
              throughput |-> tp]
    ELSE ZeroStats

zk_prove_aggregate(rs) ==
    IF rs # <<>>
    THEN LET n == Len(rs)
             avg == FDiv(sum_field(rs, "avg", n), F(n))
             min == fold_min(rs, "min", n)
             max == fold_max(rs, "max", n)
             p95 == FDiv(sum_field(rs, "p95", n), F(n))
             tp == FDiv(sum_field(rs, "throughput", n), F(n))
         IN  [avg |-> avg, min |-> min, max |-> max, p95 |-> p95,
              throughput |-> tp]
    ELSE ZeroStats

zk_verify_aggregate(rs) ==
    IF rs # <<>>
    THEN LET n == Len(rs)
             avg == FDiv(sum_field(rs, "avg", n), F(n))
             min == fold_min(rs, "min", n)
             max == fold_max(rs, "max", n)
             p95 == FDiv(sum_field(rs, "p95", n), F(n))
             tp == FDiv(sum_field(rs, "throughput", n), F(n))
         IN  [avg |-> avg, min |-> min, max |-> max, p95 |-> p95,
              throughput |-> tp]
    ELSE ZeroStats

\* The BenchmarkResult a run_*_benchmark returns (timestamp, label and the
\* wall-clock fields are not modelled).
BenchmarkResult(cmd, op, param, iters, reqs, conc, rs, errs) ==
    LET agg == CASE cmd = "kem" -> kem_aggregate(rs)
                 [] cmd = "zk_prove" -> zk_prove_aggregate(rs)
                 [] cmd = "zk_verify" -> zk_verify_aggregate(rs)
    IN  [service |-> IF cmd = "kem" THEN "lattice_service" ELSE "zk_service",
         operation |-> op, param_set |-> param, iterations |-> iters,
         requests |-> reqs, concurrency |-> conc,
         avg_latency_ms |-> agg.avg, min_latency_ms |-> agg.min,
         max_latency_ms |-> agg.max, p95_latency_ms |-> agg.p95,
         throughput_ops_sec |-> agg.throughput, error_count |-> errs]

\* ------------------------------------------ bench_client: orchestrator
\* What a service measured for one request of the batch: the sample
\* sequences behind the responses a client may receive.
SamplePool == {<<10, 50>>, <<20, 40, 40>>, <<15, 45>>, <<0>>}

\* The statistics a well-formed response body of the command's endpoint
\* carries.
ResponseData(cmd) ==
    IF cmd = "kem" THEN {kem_compute_stats(t) : t \in SamplePool}
    ELSE {zk_compute_stats(t) : t \in SamplePool}

\* response.json::<...>().await: Ok(data), or Err for a body that is not
\* the expected JSON (an error status carries such a body).
ParseOutcomes(cmd) ==
    {[ok |-> TRUE, data |-> d] : d \in ResponseData(cmd)}
        \cup {[ok |-> FALSE, data |-> ZeroStats]}

Commands == {"kem", "zk_prove", "zk_verify"}

ServerIdle ==
    /\ s_pc = "Idle"
    /\ s_endpoint = "none"
    /\ s_req = [param_set |-> "", operation |-> "", circuit_id |-> "",
                iterations |-> 0]
    /\ s_env = [durations |-> <<>>, fail_at |-> 0]
    /\ s_iterations = 0
    /\ s_invoked = [routine |-> "none", op |-> "none", setup_alg |-> "none",
                    timed_alg |-> "none"]
    /\ s_timings = <<>>
    /\ s_stats = [computed |-> FALSE, value |-> ZeroStats]
    /\ s_resp = [status |-> 0, iterations |-> 0, stats |-> ZeroStats,
                 message |-> <<>>]
    /\ s_phases = <<>>

SuiteIdle ==
    /\ suite_k = 0
    /\ kem_iterations = 0
    /\ zk_iterations = 0
    /\ issued = <<>>

\* main: Cli::parse() chose one of the three single-benchmark commands; the
\* run_*_benchmark it calls has built its semaphore and empty collections.
Init ==
    /\ command \in Commands
    /\ requests \in 0..MaxRequests
    /\ concurrency \in 0..MaxConcurrency
    /\ pc = "issue"
    /\ permits = concurrency
    /\ handles = <<>>
    /\ task = [t \in 1..requests |-> "unspawned"]
    /\ res = [t \in 1..requests |-> "none"]
    /\ next_handle = 0
    /\ results = <<>>
    /\ errors = 0
    /\ bench_results = <<>>
    /\ output = <<>>
    /\ ServerIdle
    /\ SuiteIdle

\* Mutant of AcquireSpawn: the call is spawned without waiting for a permit.
AcquireSpawn_NoWait ==
    /\ pc = "issue"
    /\ Len(handles) < requests
    /\ permits' = permits - 1
    /\ handles' = Append(handles, Len(handles) + 1)
    /\ task' = [task EXCEPT ![Len(handles) + 1] = "in_flight"]
    /\ UNCHANGED <<command, requests, concurrency, pc, res, next_handle,
                   results, errors, bench_results, output>>
    /\ UNCHANGED <<serverVars, suiteVars>>

\* One pass of the issuing loop: acquire_owned().await, then tokio::spawn of
\* the call, which owns the permit.
AcquireSpawn ==
    /\ pc = "issue"
    /\ Len(handles) < requests
    /\ permits > 0
    /\ permits' = permits - 1
    /\ handles' = Append(handles, Len(handles) + 1)
    /\ task' = [task EXCEPT ![Len(handles) + 1] = "in_flight"]
    /\ UNCHANGED <<command, requests, concurrency, pc, res, next_handle,
                   results, errors, bench_results, output>>
    /\ UNCHANGED <<serverVars, suiteVars>>

\* Mutant of IssueDone: the issuing loop gives up without its `requests` passes.
IssueDone_Early ==
    /\ pc = "issue"
    /\ pc' = "collect"
    /\ UNCHANGED <<command, requests, concurrency, permits, handles, task,
                   res, next_handle, results, errors, bench_results, output>>
    /\ UNCHANGED <<serverVars, suiteVars>>

\* The issuing loop ends after `requests` passes.
IssueDone ==
    /\ pc = "issue"
    /\ Len(handles) = requests
    /\ pc' = "collect"
    /\ UNCHANGED <<command, requests, concurrency, permits, handles, task,
                   res, next_handle, results, errors, bench_results, output>>
    /\ UNCHANGED <<serverVars, suiteVars>>

\* send().await returns in the spawned task: a response or a transport error.
SendReturns(t) ==
    /\ task[t] = "in_flight"
    /\ \E r \in {"response", "transport_err"} :
           res' = [res EXCEPT ![t] = r]
    /\ task' = [task EXCEPT ![t] = "send_returned"]
    /\ UNCHANGED <<command, requests, concurrency, pc, permits, handles,
                   next_handle, results, errors, bench_results, output>>
    /\ UNCHANGED <<serverVars, suiteVars>>

\* Mutant of DropPermit: a task whose send failed keeps its permit.
DropPermit_Leak(t) ==
    /\ task[t] = "send_returned"
    /\ permits' = IF res[t] = "transport_err" THEN permits ELSE permits + 1
    /\ task' = [task EXCEPT ![t] = "finished"]
    /\ UNCHANGED <<command, requests, concurrency, pc, handles, res,
                   next_handle, results, errors, bench_results, output>>
    /\ UNCHANGED <<serverVars, suiteVars>>

\* drop(permit); res -- the task ends with the send's result.
DropPermit(t) ==
    /\ task[t] = "send_returned"
    /\ permits' = permits + 1
    /\ task' = [task EXCEPT ![t] = "finished"]
    /\ UNCHANGED <<command, requests, concurrency, pc, handles, res,
                   next_handle, results, errors, bench_results, output>>
    /\ UNCHANGED <<serverVars, suiteVars>>

\* The task panics or is cancelled before its send returns: its future is
\* dropped, and the permit it owns with it; the handle yields a JoinError.
TaskFails(t) ==
    /\ task[t] = "in_flight"
    /\ res' = [res EXCEPT ![t] = "join_err"]
    /\ permits' = permits + 1
    /\ task' = [task EXCEPT ![t] = "finished"]
    /\ UNCHANGED <<command, requests, concurrency, pc, handles, next_handle,
                   results, errors, bench_results, output>>
    /\ UNCHANGED <<serverVars, suiteVars>>

\* Mutant of CollectOne: a body that does not parse is dropped uncounted.
CollectOne_DropMalformed ==
    /\ pc = "collect"
    /\ next_handle < Len(handles)
    /\ task[handles[next_handle + 1]] = "finished"
    /\ next_handle' = next_handle + 1
    /\ IF res[handles[next_handle + 1]] = "response"
       THEN \E parsed \in ParseOutcomes(command) :
                IF parsed.ok
                THEN /\ results' = Append(results, parsed.data)
                     /\ errors' = errors
                ELSE /\ errors' = errors
                     /\ results' = results
       ELSE /\ errors' = errors + 1
            /\ results' = results
    /\ UNCHANGED <<command, requests, concurrency, pc, permits, handles, task,
                   res, bench_results, output>>
    /\ UNCHANGED <<serverVars, suiteVars>>

\* Mutant of CollectOne: the first failure ends the collecting loop.
CollectOne_AbortOnFailure ==
    /\ pc = "collect"
    /\ next_handle < Len(handles)
    /\ task[handles[next_handle + 1]] = "finished"
    /\ IF res[handles[next_handle + 1]] = "response"
       THEN \E parsed \in ParseOutcomes(command) :
                IF parsed.ok
                THEN /\ results' = Append(results, parsed.data)
                     /\ errors' = errors
                     /\ next_handle' = next_handle + 1
                ELSE /\ errors' = errors + 1
                     /\ results' = results
                     /\ next_handle' = Len(handles)
       ELSE /\ errors' = errors + 1
            /\ results' = results
            /\ next_handle' = Len(handles)
    /\ UNCHANGED <<command, requests, concurrency, pc, permits, handles, task,
                   res, bench_results, output>>
    /\ UNCHANGED <<serverVars, suiteVars>>

\* One pass of the collecting loop: handle.await, then the match.
CollectOne ==
    /\ pc = "collect"
    /\ next_handle < Len(handles)
    /\ task[handles[next_handle + 1]] = "finished"
    /\ next_handle' = next_handle + 1
    /\ IF res[handles[next_handle + 1]] = "response"
       THEN \E parsed \in ParseOutcomes(command) :
                IF parsed.ok
                THEN /\ results' = Append(results, parsed.data)
                     /\ errors' = errors
                ELSE /\ errors' = errors + 1
                     /\ results' = results
       ELSE /\ errors' = errors + 1
            /\ results' = results
    /\ UNCHANGED <<command, requests, concurrency, pc, permits, handles, task,
                   res, bench_results, output>>
    /\ UNCHANGED <<serverVars, suiteVars>>

\* Identity and iteration count of the command are not inputs of the
\* orchestration; the result echoes the command's defaults.
DefaultOperation(cmd) ==
    CASE cmd = "kem" -> "full_handshake"
      [] cmd = "zk_prove" -> "prove"
      [] cmd = "zk_verify" -> "verify"
DefaultParam(cmd) == IF cmd = "kem" THEN "ml_kem_768" ELSE "multiply"
DefaultIterations(cmd) ==
    CASE cmd = "kem" -> 100
      [] cmd = "zk_prove" -> 10
      [] cmd = "zk_verify" -> 100

\* The collecting loop is over: aggregate, return the BenchmarkResult, and
\* main pushes it.
Aggregate ==
    /\ pc = "collect"
    /\ next_handle = Len(handles)
    /\ bench_results' = Append(bench_results,
           BenchmarkResult(command, DefaultOperation(command),
                           DefaultParam(command), DefaultIterations(command),
                           requests, concurrency, results, errors))
    /\ pc' = "returned"
    /\ UNCHANGED <<command, requests, concurrency, permits, handles, task,
                   res, next_handle, results, errors, output>>
    /\ UNCHANGED <<serverVars, suiteVars>>

\* output_results(&results, ...)
Output ==
    /\ pc = "returned"
    /\ output' = bench_results
    /\ pc' = "emitted"
    /\ UNCHANGED <<command, requests, concurrency, permits, handles, task,
                   res, next_handle, results, errors, bench_results>>
    /\ UNCHANGED <<serverVars, suiteVars>>

Next ==
    \/ AcquireSpawn
    \/ IssueDone
    \/ \E t \in 1..requests : SendReturns(t)
    \/ \E t \in 1..requests : DropPermit(t)
    \/ \E t \in 1..requests : TaskFails(t)
    \/ CollectOne
    \/ Aggregate
    \/ Output

Spec == Init /\ [][Next]_vars

\* The scheduler runs every runnable task and the main flow, and (the
\* hypothesis of a terminating batch) every issued HTTP call returns or its
\* task fails.
\* The main flow's progress through the collecting loop and out of it:
\* within Next these are exactly the CollectOne and the Aggregate steps.
CollectStep ==
    /\ pc = "collect"
    /\ next_handle < Len(handles)
    /\ task[handles[next_handle + 1]] = "finished"
    /\ next_handle' = next_handle + 1

ReturnStep ==
    /\ pc = "collect"
    /\ next_handle = Len(handles)
    /\ pc' = "returned"

Fairness ==
    /\ WF_vars(AcquireSpawn)
    /\ WF_vars(IssueDone)
    /\ \A t \in 1..MaxRequests :
           /\ WF_vars(t \in DOMAIN task /\ (SendReturns(t) \/ TaskFails(t)))
           /\ WF_vars(t \in DOMAIN task /\ DropPermit(t))
    /\ WF_next_handle(CollectStep)
    /\ WF_pc(ReturnStep)
    /\ WF_vars(Output)

FairSpec == Init /\ [][Next]_vars /\ Fairness

\* ======================================================= the services
\* ---------------------------------------------------------- the inputs
ParamSetInputs == {"ml_kem_512", "ml_kem_768", "ml_kem_1024", "ml_kem_767",
                   "ml_kem_999"}
OperationInputs == {"keygen", "encaps", "decaps", "full_handshake", "sign"}
CircuitInputs == {"multiply", "cube_root"}
\* u32 iteration counts around the three clamping ranges.
IterationInputs == {0, 1, 2, 3, 1001, 5001, 10001, 50000}
\* Elapsed microseconds one iteration can measure.
Durations == {0, 3, 7}

\* The elapsed time of each of the n iterations of a run: every sequence
\* of durations for a run of up to MaxSampleLen iterations, and for a longer
\* run the one that measures the largest duration throughout.
DurationSeqs(n) ==
    IF n <= MaxSampleLen THEN [1..n -> Durations]
    ELSE LET d == CHOOSE m \in Durations : \A x \in Durations : x <= m
         IN  {[i \in 1..n |-> d]}

\* What a run of n iterations meets: the durations its clock measures, and
\* where a fallible cryptographic call returns Err: nowhere (0), in the
\* setup before the loop (-1), or in iteration fail_at.
Envs(n) ==
    {[durations |-> ds, fail_at |-> k] :
        ds \in DurationSeqs(n), k \in {-1, 0, 1, n}}

\* u32::min, u32::max, u32::clamp
u32_min(a, b) == IF a < b THEN a ELSE b
u32_max(a, b) == IF a > b THEN a ELSE b
u32_clamp(n, lo, hi) == IF n < lo THEN lo ELSE IF n > hi THEN hi ELSE n

\* --------------------------------- lattice_service: benchmark routines
\* A timed loop `for _ in 0..iterations { start; <call>; timings.push(elapsed) }`
\* after an optional setup.  setup_unwraps: the setup unwraps a fallible
\* call; loop_unwraps: the timed call's result is unwrapped inside the loop
\* (a failure panics) instead of being discarded with `let _ =`.
TimedLoop(routine, op, setup_alg, timed_alg, setup_unwraps, loop_unwraps, iterations, env) ==
    LET panicked == \/ setup_unwraps /\ env.fail_at = -1
                    \/ loop_unwraps /\ env.fail_at \in 1..iterations
    IN  [routine |-> routine, op |-> op, setup_alg |-> setup_alg,
         timed_alg |-> timed_alg, panicked |-> panicked,
         timings |-> IF panicked THEN <<>>
                     ELSE [i \in 1..iterations |-> env.durations[i]]]

bench_keygen_768(iterations, env) ==
    TimedLoop("bench_keygen_768", "keygen", "none", "MlKem768",
              FALSE, FALSE, iterations, env)
bench_encaps_768(iterations, env) ==
    TimedLoop("bench_encaps_768", "encaps", "MlKem768", "MlKem768",
              FALSE, FALSE, iterations, env)
bench_decaps_768(iterations, env) ==
    TimedLoop("bench_decaps_768", "decaps", "MlKem768", "MlKem768",
              TRUE, FALSE, iterations, env)
bench_full_handshake_768(iterations, env) ==
    TimedLoop("bench_full_handshake_768", "full_handshake", "none", "MlKem768",
              FALSE, TRUE, iterations, env)

bench_keygen_512(iterations, env) ==
    TimedLoop("bench_keygen_512", "keygen", "none", "MlKem512",
              FALSE, FALSE, iterations, env)
bench_encaps_512(iterations, env) ==
    TimedLoop("bench_encaps_512", "encaps", "MlKem512", "MlKem512",
              FALSE, FALSE, iterations, env)
bench_decaps_512(iterations, env) ==
    TimedLoop("bench_decaps_512", "decaps", "MlKem512", "MlKem512",
              TRUE, FALSE, iterations, env)
bench_full_handshake_512(iterations, env) ==
    TimedLoop("bench_full_handshake_512", "full_handshake", "none", "MlKem512",
              FALSE, TRUE, iterations, env)

bench_keygen_1024(iterations, env) ==
    TimedLoop("bench_keygen_1024", "keygen", "none", "MlKem1024",
              FALSE, FALSE, iterations, env)
\* The keypair is MlKem512::generate: the timed encapsulate is ML-KEM-512's.
bench_encaps_1024(iterations, env) ==
    TimedLoop("bench_encaps_1024", "encaps", "MlKem512", "MlKem512",
              FALSE, FALSE, iterations, env)
bench_decaps_1024(iterations, env) ==
    TimedLoop("bench_decaps_1024", "decaps", "MlKem1024", "MlKem1024",
              TRUE, FALSE, iterations, env)
bench_full_handshake_1024(iterations, env) ==
    TimedLoop("bench_full_handshake_1024", "full_handshake", "none",
              "MlKem1024", FALSE, TRUE, iterations, env)

\* The `_ => vec![0]` arm: no routine runs.
UnsupportedCombo ==
    [routine |-> "none", op |-> "none", setup_alg |-> "none",
     timed_alg |-> "none", panicked |-> FALSE, timings |-> <<0>>]

\* req.iterations.min(10000).max(1)
kem_clamp_NoLower(n) == u32_min(n, KEM_MAX_ITERATIONS)
kem_clamp(n) == u32_max(u32_min(n, KEM_MAX_ITERATIONS), 1)

\* match (req.param_set.as_str(), req.operation.as_str())
kem_dispatch(param_set, operation, iterations, env) ==
    CASE param_set = "ml_kem_768" /\ operation = "keygen" ->
             bench_keygen_768(iterations, env)
      [] param_set = "ml_kem_768" /\ operation = "encaps" ->
             bench_encaps_768(iterations, env)
      [] param_set = "ml_kem_768" /\ operation = "decaps" ->
             bench_decaps_768(iterations, env)
      [] param_set = "ml_kem_768" /\ operation = "full_handshake" ->
             bench_full_handshake_768(iterations, env)
      [] param_set = "ml_kem_512" /\ operation = "keygen" ->
             bench_keygen_512(iterations, env)
      [] param_set = "ml_kem_512" /\ operation = "encaps" ->
             bench_encaps_512(iterations, env)
      [] param_set = "ml_kem_512" /\ operation = "decaps" ->
             bench_decaps_512(iterations, env)
      [] param_set = "ml_kem_512" /\ operation = "full_handshake" ->
             bench_full_handshake_512(iterations, env)
      [] param_set = "ml_kem_1024" /\ operation = "keygen" ->
             bench_keygen_1024(iterations, env)
      [] param_set = "ml_kem_1024" /\ operation = "encaps" ->
             bench_encaps_1024(iterations, env)
      [] param_set = "ml_kem_1024" /\ operation = "decaps" ->
             bench_decaps_1024(iterations, env)
      [] param_set = "ml_kem_1024" /\ operation = "full_handshake" ->
             bench_full_handshake_1024(iterations, env)
      [] OTHER -> UnsupportedCombo

\* -------------------------------------- zk_service: benchmark routines
\* Every iteration proves with .expect("Proving failed").
bench_prove_multiply(iterations, env) ==
    TimedLoop("bench_prove_multiply", "prove", "none", "Groth16/multiply",
              FALSE, TRUE, iterations, env)
\* One proof is made before the loop (.expect); every iteration verifies it
\* with .expect("Verification failed") and assert!(valid).
bench_verify_multiply(iterations, env) ==
    TimedLoop("bench_verify_multiply", "verify", "Groth16/multiply",
              "Groth16/multiply", TRUE, TRUE, iterations, env)

\* Err(AppError::InvalidCircuit(req.circuit_id))
InvalidCircuit ==
    [routine |-> "none", op |-> "rejected", setup_alg |-> "none",
     timed_alg |-> "none", panicked |-> FALSE, timings |-> <<>>]

zk_prove_clamp(n) == u32_clamp(n, 1, ZK_PROVE_MAX_ITERATIONS)
zk_verify_clamp(n) == u32_clamp(n, 1, ZK_VERIFY_MAX_ITERATIONS)

zk_prove_dispatch(circuit_id, iterations, env) ==
    IF circuit_id = "multiply" THEN bench_prove_multiply(iterations, env)
    ELSE InvalidCircuit

\* Mutant of zk_verify_dispatch: every circuit_id runs the multiply circuit.
zk_verify_dispatch_AnyCircuit(circuit_id, iterations, env) ==
    bench_verify_multiply(iterations, env)

zk_verify_dispatch(circuit_id, iterations, env) ==
    IF circuit_id = "multiply" THEN bench_verify_multiply(iterations, env)
    ELSE InvalidCircuit

\* ------------------------------------------------ the request handlers
Endpoints == {"kem_bench", "zk_prove_bench", "zk_verify_bench"}

ClientIdle ==
    /\ command = "none"
    /\ requests = 0
    /\ concurrency = 0
    /\ pc = "idle"
    /\ permits = 0
    /\ handles = <<>>
    /\ task = <<>>
    /\ res = <<>>
    /\ next_handle = 0
    /\ results = <<>>
    /\ errors = 0
    /\ bench_results = <<>>
    /\ output = <<>>

ServerInit == ServerIdle /\ ClientIdle /\ SuiteIdle

\* The Json extractor hands a well-formed request to the route's handler.
Receive ==
    /\ s_pc = "Idle"
    /\ \E ep \in Endpoints, n \in IterationInputs :
           /\ s_endpoint' = ep
           /\ IF ep = "kem_bench"
              THEN \E ps \in ParamSetInputs, op \in OperationInputs :
                       s_req' = [param_set |-> ps, operation |-> op,
                                 circuit_id |-> "", iterations |-> n]
              ELSE \E c \in CircuitInputs :
                       s_req' = [param_set |-> "", operation |-> "",
                                 circuit_id |-> c, iterations |-> n]
    /\ s_pc' = "Received"
    /\ s_phases' = <<"Received">>
    /\ UNCHANGED <<s_env, s_iterations, s_invoked, s_timings, s_stats, s_resp>>
    /\ UNCHANGED <<clientVars, suiteVars>>

\* The handler has clamped the count and its match has run the routine
\* `run`: the samples are there, or the routine panicked and the request
\* ends without a response.
Sampled(iterations, env, run) ==
    /\ s_iterations' = iterations
    /\ s_env' = IF run.routine = "none" THEN s_env ELSE env
    /\ s_invoked' = [routine |-> run.routine, op |-> run.op,
                     setup_alg |-> run.setup_alg, timed_alg |-> run.timed_alg]
    /\ s_timings' = run.timings
    /\ s_pc' = IF run.panicked THEN "Aborted" ELSE "Sampled"
    /\ s_phases' = Append(s_phases, IF run.panicked THEN "Aborted" ELSE "Sampled")
    /\ UNCHANGED <<s_endpoint, s_req, s_stats, s_resp>>

\* AppError::into_response: 400 and "Invalid circuit_id: <id>".
Rejected(iterations) ==
    /\ s_iterations' = iterations
    /\ s_resp' = [status |-> STATUS_BAD_REQUEST, iterations |-> 0,
                  stats |-> ZeroStats,
                  message |-> <<"Invalid circuit_id: ", s_req.circuit_id>>]
    /\ s_pc' = "Rejected"
    /\ s_phases' = Append(s_phases, "Rejected")
    /\ UNCHANGED <<s_endpoint, s_req, s_env, s_invoked, s_timings, s_stats>>

\* Ok(Json(response)) / Json(response): status 200, the resolved count and
\* the statistics (identity echo, proof size and timestamp not modelled).
Responded ==
    /\ s_pc = "Reduced"
    /\ s_resp' = [status |-> STATUS_OK, iterations |-> s_iterations,
                  stats |-> s_stats.value, message |-> <<>>]
    /\ s_pc' = "Responded"
    /\ s_phases' = Append(s_phases, "Responded")
    /\ UNCHANGED <<s_endpoint, s_req, s_env, s_iterations, s_invoked,
                   s_timings, s_stats>>

\* kem_bench: the clamp and the match.
kem_bench_sample ==
    /\ s_pc = "Received"
    /\ s_endpoint = "kem_bench"
    /\ LET iterations == kem_clamp(s_req.iterations)
       IN  \E env \in Envs(iterations) :
               Sampled(iterations, env,
                       kem_dispatch(s_req.param_set, s_req.operation,
                                    iterations, env))
    /\ UNCHANGED <<clientVars, suiteVars>>

\* kem_bench: compute_stats(&timings)
kem_bench_reduce ==
    /\ s_pc = "Sampled"
    /\ s_endpoint = "kem_bench"
    /\ s_stats' = [computed |-> TRUE, value |-> kem_compute_stats(s_timings)]
    /\ s_pc' = "Reduced"
    /\ s_phases' = Append(s_phases, "Reduced")
    /\ UNCHANGED <<s_endpoint, s_req, s_env, s_iterations, s_invoked,
                   s_timings, s_resp>>
    /\ UNCHANGED <<clientVars, suiteVars>>

kem_bench_respond ==
    /\ s_endpoint = "kem_bench"
    /\ Responded
    /\ UNCHANGED <<clientVars, suiteVars>>

\* zk_prove_bench: the clamp and the match.
zk_prove_bench_sample ==
    /\ s_pc = "Received"
    /\ s_endpoint = "zk_prove_bench"
    /\ LET iterations == zk_prove_clamp(s_req.iterations)
       IN  \E env \in Envs(iterations) :
               LET run == zk_prove_dispatch(s_req.circuit_id, iterations, env)
               IN  IF run.op = "rejected" THEN Rejected(iterations)
                   ELSE Sampled(iterations, env, run)
    /\ UNCHANGED <<clientVars, suiteVars>>

zk_prove_bench_reduce ==
    /\ s_pc = "Sampled"
    /\ s_endpoint = "zk_prove_bench"
    /\ s_stats' = [computed |-> TRUE, value |-> zk_compute_stats(s_timings)]
    /\ s_pc' = "Reduced"
    /\ s_phases' = Append(s_phases, "Reduced")
    /\ UNCHANGED <<s_endpoint, s_req, s_env, s_iterations, s_invoked,
                   s_timings, s_resp>>
    /\ UNCHANGED <<clientVars, suiteVars>>

zk_prove_bench_respond ==
    /\ s_endpoint = "zk_prove_bench"
    /\ Responded
    /\ UNCHANGED <<clientVars, suiteVars>>

\* zk_verify_bench: the clamp and the match.
zk_verify_bench_sample ==
    /\ s_pc = "Received"
    /\ s_endpoint = "zk_verify_bench"
    /\ LET iterations == zk_verify_clamp(s_req.iterations)
       IN  \E env \in Envs(iterations) :
               LET run == zk_verify_dispatch(s_req.circuit_id, iterations, env)
               IN  IF run.op = "rejected" THEN Rejected(iterations)
                   ELSE Sampled(iterations, env, run)
    /\ UNCHANGED <<clientVars, suiteVars>>

zk_verify_bench_reduce ==
    /\ s_pc = "Sampled"
    /\ s_endpoint = "zk_verify_bench"
    /\ s_stats' = [computed |-> TRUE, value |-> zk_compute_stats(s_timings)]
    /\ s_pc' = "Reduced"
    /\ s_phases' = Append(s_phases, "Reduced")
    /\ UNCHANGED <<s_endpoint, s_req, s_env, s_iterations, s_invoked,
                   s_timings, s_resp>>
    /\ UNCHANGED <<clientVars, suiteVars>>

zk_verify_bench_respond ==
    /\ s_endpoint = "zk_verify_bench"
    /\ Responded
    /\ UNCHANGED <<clientVars, suiteVars>>

ServerNext ==
    \/ Receive
    \/ kem_bench_sample
    \/ kem_bench_reduce
    \/ kem_bench_respond
    \/ zk_prove_bench_sample
    \/ zk_prove_bench_reduce
    \/ zk_prove_bench_respond
    \/ zk_verify_bench_sample
    \/ zk_verify_bench_reduce
    \/ zk_verify_bench_respond

ServerSpec == ServerInit /\ [][ServerNext]_vars

\* ===================================================== claims: client
Outstanding == {t \in DOMAIN task : task[t] = "in_flight"}
Recorded == pc \in {"returned", "emitted"}
FailedTasks == {t \in DOMAIN task : res[t] \in {"transport_err", "join_err"}}
ResponseTasks == {t \in DOMAIN task : res[t] = "response"}

\* C1: at every instant at most `concurrency` HTTP calls are outstanding
\* (slot taken and sent, send not yet returned), for every command, every
\* R and C and every interleaving of the spawned tasks.
C1_AtMostCOutstanding == Cardinality(Outstanding) <= concurrency

\* C1 witness: the limit binds: C >= 2 calls are outstanding, and a further
\* call of the batch is still waiting for a slot.
C1_Witness ==
    /\ concurrency >= 2
    /\ requests > concurrency
    /\ Cardinality(Outstanding) = concurrency
    /\ pc = "issue"
    /\ Len(handles) < requests

\* C2: the aggregated result exists only once every one of the R calls has
\* a recorded outcome, and then successes + error_count = R, each awaited
\* call having been counted exactly once.
C2_AllOutcomesCounted ==
    /\ Len(results) + errors = next_handle
    /\ ~Recorded => bench_results = <<>>
    /\ Recorded =>
           /\ Len(handles) = requests
           /\ next_handle = requests
           /\ \A t \in DOMAIN task : task[t] = "finished"
           /\ Len(bench_results) = 1
           /\ Len(results) + bench_results[1].error_count = requests

\* C2 witness: a finished batch that mixed a success, a transport failure
\* and a task failure or malformed body.
C2_Witness ==
    /\ pc = "emitted"
    /\ Len(results) >= 1
    /\ \E t \in DOMAIN task : res[t] = "transport_err"
    /\ \/ \E t \in DOMAIN task : res[t] = "join_err"
       \/ Cardinality(ResponseTasks) > Len(results)

\* C3: a failed call never aborts the batch.  A step that records a failure
\* only increments the failure counter and moves on to the next handle; a
\* step in which a call fails touches nothing but that call and its permit;
\* and a batch with failures still ends with all R calls issued and awaited,
\* every failure counted and every other outcome recorded.
C3_FailureNeverAborts ==
    /\ [](Recorded =>
            /\ Len(handles) = requests
            /\ next_handle = requests
            /\ errors >= Cardinality(FailedTasks)
            /\ Len(results) = requests - errors)
    /\ [][/\ errors' # errors =>
                /\ errors' = errors + 1
                /\ next_handle' = next_handle + 1
                /\ results' = results
                /\ pc' = pc
                /\ handles' = handles
                /\ task' = task
          /\ \A t \in DOMAIN task :
                (res[t] = "none" /\ res'[t] \in {"transport_err", "join_err"}) =>
                    /\ pc' = pc
                    /\ handles' = handles
                    /\ next_handle' = next_handle
                    /\ results' = results
                    /\ errors' = errors
                    /\ \A u \in DOMAIN task \ {t} :
                           task'[u] = task[u] /\ res'[u] = res[u]]_vars

\* C3 witness: the first call failed and a later call's response was still
\* recorded.
C3_Witness ==
    /\ Recorded
    /\ requests >= 2
    /\ res[1] \in {"transport_err", "join_err"}
    /\ Len(results) >= 1

\* C4: for R >= 1 and C >= 1, when every issued call returns, the batch
\* completes and the client emits one result carrying error_count.
C4_BatchCompletes ==
    (requests >= 1 /\ concurrency >= 1)
        ~> (/\ pc = "emitted"
            /\ Len(output) = 1
            /\ "error_count" \in DOMAIN output[1]
            /\ output[1].error_count = errors)

\* C4 witness: more calls than slots, every call failed, one result emitted.
C4_Witness ==
    /\ pc = "emitted"
    /\ concurrency >= 1
    /\ requests > concurrency
    /\ Len(output) = 1
    /\ output[1].error_count = requests

\* ------------------------------------------------ reference aggregator
FieldSeq(rs, field) == [i \in DOMAIN rs |-> rs[i][field]]

RECURSIVE RefSum(_)
RefSum(vals) == IF vals = <<>> THEN F(0) ELSE FAdd(Head(vals), RefSum(Tail(vals)))
RefMean(vals) == FDiv(RefSum(vals), F(Len(vals)))
RefMin(vals) == CHOOSE m \in Range(vals) : \A x \in Range(vals) : FLe(m, x)
RefMax(vals) == CHOOSE m \in Range(vals) : \A x \in Range(vals) : FLe(x, m)

Reference(rs) ==
    IF rs = <<>> THEN ZeroStats
    ELSE [avg |-> RefMean(FieldSeq(rs, "avg")),
          min |-> RefMin(FieldSeq(rs, "min")),
          max |-> RefMax(FieldSeq(rs, "max")),
          p95 |-> RefMean(FieldSeq(rs, "p95")),
          throughput |-> RefMean(FieldSeq(rs, "throughput"))]

\* The latency fields of a kem result are the microsecond values / 1000.
Scaled(cmd, x) == IF cmd = "kem" THEN FDiv(x, F(1000)) ELSE x

\* C10 as stated: the aggregated fields equal the reference aggregator's on
\* the per-response values (all 0 and error_count = R without a success).
C10_Original ==
    Recorded =>
        LET r == bench_results[1]
            ref == Reference(results)
        IN  /\ r.avg_latency_ms = ref.avg
            /\ r.min_latency_ms = ref.min
            /\ r.max_latency_ms = ref.max
            /\ r.p95_latency_ms = ref.p95
            /\ r.throughput_ops_sec = ref.throughput
            /\ results = <<>> => r.error_count = requests

\* C10 amended: as stated for the proof benchmarks; for the kem benchmark
\* the four latency fields are the reference values divided by 1000
\* (microseconds reported as milliseconds), the throughput is not scaled.
C10_AggregateMatchesReference ==
    Recorded =>
        LET r == bench_results[1]
            ref == Reference(results)
        IN  /\ r.avg_latency_ms = Scaled(command, ref.avg)
            /\ r.min_latency_ms = Scaled(command, ref.min)
            /\ r.max_latency_ms = Scaled(command, ref.max)
            /\ r.p95_latency_ms = Scaled(command, ref.p95)
            /\ r.throughput_ops_sec = ref.throughput
            /\ results = <<>> => r.error_count = requests

\* C10 witness: a kem batch of three responses with minimums {10, 20, 15}
\* and maximums {50, 40, 45}: the result reports 10/1000 and 50/1000.
C10_Witness ==
    /\ Recorded
    /\ command = "kem"
    /\ Len(results) = 3
    /\ Range(FieldSeq(results, "min")) = {F(10), F(20), F(15)}
    /\ Range(FieldSeq(results, "max")) = {F(50), F(40), F(45)}
    /\ bench_results[1].min_latency_ms = Norm(10, 1000)
    /\ bench_results[1].max_latency_ms = Norm(50, 1000)

\* ===================================================== the suite command
\* --kem-iterations / --zk-iterations range over 0..MaxSuiteIterations, and
\* at most MaxSuiteFailures requests of one suite run fail in transport.
MaxSuiteIterations == 2
MaxSuiteFailures == 1

\* for param_set in [...] / for operation in [...] / for circuit_id in [...]
SuiteParamSets == <<"ml_kem_512", "ml_kem_767", "ml_kem_1024">>
SuiteOperations == <<"keygen", "encaps", "decaps", "full_handshake">>
SuiteCircuits == <<"multiply", "cube_root">>
\* zk_iterations * 10
SuiteVerifyFactor == 10

SuiteKemRuns == Len(SuiteParamSets) * Len(SuiteOperations)
SuiteRuns == SuiteKemRuns + 2 * Len(SuiteCircuits)

\* The handler of endpoint ep run to its end on request req in environment
\* env: the clamp, the match, the statistics and the response.
Serve(ep, req, env) ==
    LET iterations ==
            CASE ep = "kem_bench" -> kem_clamp(req.iterations)
              [] ep = "zk_prove_bench" -> zk_prove_clamp(req.iterations)
              [] ep = "zk_verify_bench" -> zk_verify_clamp(req.iterations)
        run ==
            CASE ep = "kem_bench" ->
                     kem_dispatch(req.param_set, req.operation, iterations, env)
              [] ep = "zk_prove_bench" ->
                     zk_prove_dispatch(req.circuit_id, iterations, env)
              [] ep = "zk_verify_bench" ->
                     zk_verify_dispatch(req.circuit_id, iterations, env)
        stats == IF ep = "kem_bench" THEN kem_compute_stats(run.timings)
                 ELSE zk_compute_stats(run.timings)
        invoked == [routine |-> run.routine, op |-> run.op,
                    setup_alg |-> run.setup_alg, timed_alg |-> run.timed_alg]
    IN  IF run.op = "rejected"
        THEN [pc |-> "Rejected", iterations |-> iterations,
              invoked |-> invoked, timings |-> <<>>,
              stats |-> [computed |-> FALSE, value |-> ZeroStats],
              resp |-> [status |-> STATUS_BAD_REQUEST, iterations |-> 0,
                        stats |-> ZeroStats,
                        message |-> <<"Invalid circuit_id: ", req.circuit_id>>],
              phases |-> <<"Received", "Rejected">>]
        ELSE IF run.panicked
        THEN [pc |-> "Aborted", iterations |-> iterations,
              invoked |-> invoked, timings |-> <<>>,
              stats |-> [computed |-> FALSE, value |-> ZeroStats],
              resp |-> [status |-> 0, iterations |-> 0, stats |-> ZeroStats,
                        message |-> <<>>],
              phases |-> <<"Received", "Aborted">>]
        ELSE [pc |-> "Responded", iterations |-> iterations,
              invoked |-> invoked, timings |-> run.timings,
              stats |-> [computed |-> TRUE, value |-> stats],
              resp |-> [status |-> STATUS_OK, iterations |-> iterations,
                        stats |-> stats, message |-> <<>>],
              phases |-> <<"Received", "Sampled", "Reduced", "Responded">>]

\* Requests of the suite so far that failed in transport.
SuiteFailures == Cardinality({k \in DOMAIN issued : issued[k].outcome = "transport_err"})

\* main: Cli::parse() chose the suite command; every run of the suite meets
\* the environment s_env.
SuiteInit ==
    /\ command = "suite"
    /\ requests = 1
    /\ concurrency = 1
    /\ pc = "suite"
    /\ permits = 1
    /\ handles = <<>>
    /\ task = <<>>
    /\ res = <<>>
    /\ next_handle = 0
    /\ results = <<>>
    /\ errors = 0
    /\ bench_results = <<>>
    /\ output = <<>>
    /\ s_pc = "Idle"
    /\ s_endpoint = "none"
    /\ s_req = [param_set |-> "", operation |-> "", circuit_id |-> "",
                iterations |-> 0]
    /\ s_env \in {[durations |->
                      [i \in 1..(SuiteVerifyFactor * MaxSuiteIterations + 1) |-> d],
                   fail_at |-> 0] : d \in Durations}
    /\ s_iterations = 0
    /\ s_invoked = [routine |-> "none", op |-> "none", setup_alg |-> "none",
                    timed_alg |-> "none"]
    /\ s_timings = <<>>
    /\ s_stats = [computed |-> FALSE, value |-> ZeroStats]
    /\ s_resp = [status |-> 0, iterations |-> 0, stats |-> ZeroStats,
                 message |-> <<>>]
    /\ s_phases = <<>>
    /\ suite_k = 0
    /\ kem_iterations \in 0..MaxSuiteIterations
    /\ zk_iterations \in 0..MaxSuiteIterations
    /\ issued = <<>>

\* One run_*_benchmark(.., 1, 1, ..) of the suite: its single request fails
\* in transport, or the endpoint ep handles it and the client parses the
\* body (a 400 carries no measurement: the parse fails); the result is
\* aggregated and pushed.
SuiteRun(cmd, ep, req, op, param) ==
    /\ \E reached \in BOOLEAN :
           /\ ~reached => SuiteFailures < MaxSuiteFailures
           /\ LET served == Serve(ep, req, s_env)
                  ok == reached /\ served.resp.status = STATUS_OK
                  rs == IF ok THEN <<served.resp.stats>> ELSE <<>>
                  errs == IF ok THEN 0 ELSE 1
              IN  /\ results' = rs
                  /\ errors' = errs
                  /\ bench_results' = Append(bench_results,
                         BenchmarkResult(cmd, op, param, req.iterations,
                                         requests, concurrency, rs, errs))
                  /\ issued' = Append(issued,
                         [endpoint |-> ep, param_set |-> req.param_set,
                          operation |-> req.operation,
                          circuit_id |-> req.circuit_id,
                          iterations |-> req.iterations,
                          outcome |-> IF reached THEN "response"
                                      ELSE "transport_err"])
                  /\ IF reached
                     THEN /\ s_pc' = served.pc
                          /\ s_endpoint' = ep
                          /\ s_req' = req
                          /\ s_iterations' = served.iterations
                          /\ s_invoked' = served.invoked
                          /\ s_timings' = served.timings
                          /\ s_stats' = served.stats
                          /\ s_resp' = served.resp
                          /\ s_phases' = served.phases
                     ELSE UNCHANGED <<s_pc, s_endpoint, s_req, s_iterations,
                                      s_invoked, s_timings, s_stats, s_resp,
                                      s_phases>>
    /\ suite_k' = suite_k + 1
    /\ UNCHANGED <<command, requests, concurrency, pc, permits, handles, task,
                   res, next_handle, output, s_env, kem_iterations,
                   zk_iterations>>

\* The nested param_set / operation loops.
SuiteKemRun ==
    /\ pc = "suite"
    /\ suite_k < SuiteKemRuns
    /\ LET param_set == SuiteParamSets[(suite_k \div Len(SuiteOperations)) + 1]
           operation == SuiteOperations[(suite_k % Len(SuiteOperations)) + 1]
       IN  SuiteRun("kem", "kem_bench",
                    [param_set |-> param_set, operation |-> operation,
                     circuit_id |-> "", iterations |-> kem_iterations],
                    operation, param_set)

\* The circuit loop, first half of a pass: run_zk_prove_benchmark.
SuiteZkProveRun ==
    /\ pc = "suite"
    /\ suite_k >= SuiteKemRuns
    /\ suite_k < SuiteRuns
    /\ (suite_k - SuiteKemRuns) % 2 = 0
    /\ LET circuit_id == SuiteCircuits[((suite_k - SuiteKemRuns) \div 2) + 1]
       IN  SuiteRun("zk_prove", "zk_prove_bench",
                    [param_set |-> "", operation |-> "",
                     circuit_id |-> circuit_id, iterations |-> zk_iterations],
                    "prove", circuit_id)

\* The circuit loop, second half of a pass: run_zk_verify_benchmark.
SuiteZkVerifyRun ==
    /\ pc = "suite"
    /\ suite_k >= SuiteKemRuns
    /\ suite_k < SuiteRuns
    /\ (suite_k - SuiteKemRuns) % 2 = 1
    /\ LET circuit_id == SuiteCircuits[((suite_k - SuiteKemRuns) \div 2) + 1]
       IN  SuiteRun("zk_verify", "zk_verify_bench",
                    [param_set |-> "", operation |-> "",
                     circuit_id |-> circuit_id,
                     iterations |-> zk_iterations * SuiteVerifyFactor],
                    "verify", circuit_id)

\* "Suite complete." and output_results(&results, ...)
SuiteOutput ==
    /\ pc = "suite"
    /\ suite_k = SuiteRuns
    /\ output' = bench_results
    /\ pc' = "emitted"
    /\ UNCHANGED <<command, requests, concurrency, permits, handles, task,
                   res, next_handle, results, errors, bench_results>>
    /\ UNCHANGED <<serverVars, suiteVars>>

SuiteNext ==
    \/ SuiteKemRun
    \/ SuiteZkProveRun
    \/ SuiteZkVerifyRun
    \/ SuiteOutput

SuiteSpec == SuiteInit /\ [][SuiteNext]_vars

\* ============================================== claims about the services
\* The operation identities the specification calls valid.
ValidParamSets == {"ml_kem_512", "ml_kem_768", "ml_kem_1024"}
ValidOperations == {"keygen", "encaps", "decaps", "full_handshake"}
ValidCircuits == {"multiply"}

KemRequest == s_endpoint = "kem_bench" /\ s_pc # "Idle"
ZkRequest == s_endpoint \in {"zk_prove_bench", "zk_verify_bench"} /\ s_pc # "Idle"
ValidKemIdentity ==
    s_req.param_set \in ValidParamSets /\ s_req.operation \in ValidOperations
ValidIdentity ==
    IF s_endpoint = "kem_bench" THEN ValidKemIdentity
    ELSE s_req.circuit_id \in ValidCircuits

\* C5: a /kem_bench request whose param_set or operation is not a valid one
\* is rejected with status 400 and an error message: it is never sampled,
\* reduced or answered with a successful measurement response.
C5_InvalidKemRejected ==
    (KemRequest /\ ~ValidKemIdentity) =>
        /\ s_pc \in {"Received", "Rejected"}
        /\ s_resp.status # STATUS_OK
        /\ s_pc = "Rejected" =>
               s_resp.status = STATUS_BAD_REQUEST /\ s_resp.message # <<>>

\* C6: on both proof endpoints a circuit_id outside {multiply} takes the
\* request Received -> Rejected with status 400: no routine is invoked, no
\* timed iteration executes and no statistics are computed; for multiply
\* the request is never rejected and, no cryptographic call failing, goes
\* Received -> Sampled -> Reduced -> Responded with status 200.
C6_CircuitGate ==
    ZkRequest =>
        IF s_req.circuit_id \notin ValidCircuits
        THEN /\ s_pc \in {"Received", "Rejected"}
             /\ s_invoked.routine = "none"
             /\ s_timings = <<>>
             /\ ~s_stats.computed
             /\ s_pc = "Rejected" =>
                    /\ s_phases = <<"Received", "Rejected">>
                    /\ s_resp.status = STATUS_BAD_REQUEST
                    /\ s_resp.message = <<"Invalid circuit_id: ", s_req.circuit_id>>
        ELSE /\ s_pc # "Rejected"
             /\ s_resp.status # STATUS_BAD_REQUEST
             /\ (s_pc # "Received" /\ s_env.fail_at = 0) => s_pc # "Aborted"
             /\ s_pc = "Sampled" => s_phases = <<"Received", "Sampled">>
             /\ s_pc = "Reduced" =>
                    s_phases = <<"Received", "Sampled", "Reduced">>
             /\ s_pc = "Responded" =>
                    /\ s_phases = <<"Received", "Sampled", "Reduced", "Responded">>
                    /\ s_stats.computed
                    /\ s_resp.status = STATUS_OK
                    /\ s_resp.stats = s_stats.value

\* /zk_verify_bench has rejected a request for the unknown circuit cube_root.
C6_Witness ==
    /\ s_endpoint = "zk_verify_bench"
    /\ s_req.circuit_id = "cube_root"
    /\ s_pc = "Rejected"
    /\ s_phases = <<"Received", "Rejected">>
    /\ s_resp.status = STATUS_BAD_REQUEST

\* The closed range of an endpoint's iteration count.
RangeLo(ep) == 1
RangeHi(ep) ==
    CASE ep = "kem_bench" -> KEM_MAX_ITERATIONS
      [] ep = "zk_prove_bench" -> ZK_PROVE_MAX_ITERATIONS
      [] ep = "zk_verify_bench" -> ZK_VERIFY_MAX_ITERATIONS

\* n clamped into [lo, hi]: n itself inside the range, else the nearer end.
ClampedInto(n, lo, hi) ==
    CHOOSE k \in {lo, hi, n} :
        /\ lo <= k /\ k <= hi
        /\ (lo <= n /\ n <= hi) => k = n
        /\ n < lo => k = lo
        /\ n > hi => k = hi

ResolvedCount == ClampedInto(s_req.iterations, RangeLo(s_endpoint), RangeHi(s_endpoint))

\* C7: the resolved iteration count is the requested count clamped into the
\* endpoint's range; no request is rejected because of its count (only an
\* invalid circuit_id rejects); and for a valid operation whose routine
\* completes, the sample sequence has exactly the resolved length, which is
\* the iterations value of the response.
C7_CountClamped ==
    (s_pc \notin {"Idle", "Received"}) =>
        /\ s_iterations = ResolvedCount
        /\ s_pc = "Rejected" =>
               s_endpoint # "kem_bench" /\ s_req.circuit_id \notin ValidCircuits
        /\ (ValidIdentity /\ s_pc \in {"Sampled", "Reduced", "Responded"}) =>
               Len(s_timings) = ResolvedCount
        /\ s_pc = "Responded" => s_resp.iterations = ResolvedCount

\* /kem_bench has answered a request for 50,000 iterations of a valid
\* operation after timing 10,000.
C7_Witness ==
    /\ s_endpoint = "kem_bench"
    /\ ValidKemIdentity
    /\ s_req.iterations = 50000
    /\ s_pc = "Responded"
    /\ Len(s_timings) = KEM_MAX_ITERATIONS
    /\ s_resp.iterations = KEM_MAX_ITERATIONS

\* The algorithm a param_set names.
AlgOf(param_set) ==
    CASE param_set = "ml_kem_512" -> "MlKem512"
      [] param_set = "ml_kem_768" -> "MlKem768"
      [] param_set = "ml_kem_1024" -> "MlKem1024"

\* C8: every valid (param_set, operation) pair resolves to a benchmark
\* routine that performs the named operation with the named parameter set:
\* the timed call, and the setup material where the routine prepares any,
\* use the algorithm of the requested param_set.
C8_RoutineMatchesIdentity ==
    (KemRequest /\ ValidKemIdentity /\ s_pc # "Received") =>
        /\ s_invoked.routine # "none"
        /\ s_invoked.op = s_req.operation
        /\ s_invoked.timed_alg = AlgOf(s_req.param_set)
        /\ s_invoked.setup_alg \in {"none", AlgOf(s_req.param_set)}

\* The identity of an issued request resolves at its endpoint: the handler's
\* match reaches a benchmark routine.
Accepts(r) ==
    Serve(r.endpoint, r, s_env).invoked.routine # "none"

\* The issued requests of endpoint ep.
IssuedAt(ep) == {k \in DOMAIN issued : issued[k].endpoint = ep}

\* C9: every request the suite issues carries an identity its endpoint
\* accepts, and the finished suite has run exactly one KEM benchmark for
\* every valid (param_set, operation) pair and one prove and one verify
\* benchmark for every supported circuit.
C9_SuiteRunsFullMatrix ==
    /\ \A k \in DOMAIN issued : Accepts(issued[k])
    /\ pc = "emitted" =>
           /\ \A ps \in ValidParamSets, op \in ValidOperations :
                  Cardinality({k \in IssuedAt("kem_bench") :
                                  /\ issued[k].param_set = ps
                                  /\ issued[k].operation = op}) = 1
           /\ Cardinality(IssuedAt("kem_bench")) =
                  Cardinality(ValidParamSets) * Cardinality(ValidOperations)
           /\ \A c \in ValidCircuits, ep \in {"zk_prove_bench", "zk_verify_bench"} :
                  Cardinality({k \in IssuedAt(ep) : issued[k].circuit_id = c}) = 1
           /\ Cardinality(IssuedAt("zk_prove_bench")) = Cardinality(ValidCircuits)
           /\ Cardinality(IssuedAt("zk_verify_bench")) = Cardinality(ValidCircuits)

\* ================================================ the statistics functions
\* compute_stats of either service applied to a duration sequence: every
\* sequence over Durations of up to MaxStatsLen samples (the empty one
\* included), and two-level sequences of the lengths in PercentileLens.
MaxStatsLen == 3
PercentileLens == {20, 21, 40}

ShortTimings == UNION {[1..n -> Durations] : n \in 0..MaxStatsLen}
StepTimings ==
    UNION {{[i \in 1..len |-> IF i <= k THEN a ELSE b] :
               k \in 0..len, a \in Durations, b \in Durations} :
           len \in PercentileLens}
TimingInputs == ShortTimings \cup StepTimings

\* A handler holds the sample sequence and is about to reduce it.
StatsInit ==
    /\ ClientIdle
    /\ SuiteIdle
    /\ s_pc = "Sampled"
    /\ s_endpoint \in Endpoints
    /\ s_req = [param_set |-> "", operation |-> "", circuit_id |-> "",
                iterations |-> 0]
    /\ s_env = [durations |-> <<>>, fail_at |-> 0]
    /\ s_timings \in TimingInputs
    /\ s_iterations = Len(s_timings)
    /\ s_invoked = [routine |-> "none", op |-> "none", setup_alg |-> "none",
                    timed_alg |-> "none"]
    /\ s_stats = [computed |-> FALSE, value |-> ZeroStats]
    /\ s_resp = [status |-> 0, iterations |-> 0, stats |-> ZeroStats,
                 message |-> <<>>]
    /\ s_phases = <<"Received", "Sampled">>

StatsNext ==
    \/ kem_bench_reduce
    \/ zk_prove_bench_reduce
    \/ zk_verify_bench_reduce

StatsSpec == StatsInit /\ [][StatsNext]_vars

\* ------------------------------------------ claims about the statistics
\* The statistics are there.
StatsReduced == s_pc = "Reduced" /\ s_stats.computed
\* A latency of v microseconds in the unit the endpoint's statistics use:
\* microseconds at /kem_bench, milliseconds at the proof endpoints.
InUnit(v) == IF s_endpoint = "kem_bench" THEN v ELSE FDiv(v, F(1000))

\* floor(L * 0.95), capped at L - 1.
P95Index(L) ==
    LET f == CHOOSE k \in 0..L : 100 * k <= 95 * L /\ 95 * L < 100 * (k + 1)
    IN  IF f < L - 1 THEN f ELSE L - 1

\* v is the element at (0-based) index idx of the ascending arrangement of s.
IsOrderStatistic(s, idx, v) ==
    /\ \E i \in DOMAIN s : s[i] = v
    /\ Cardinality({i \in DOMAIN s : s[i] < v}) <= idx
    /\ Cardinality({i \in DOMAIN s : s[i] <= v}) > idx

\* C11: for a non-empty duration sequence of length L, the p95 of both
\* services' statistics is the element at index min(floor(L * 0.95), L - 1)
\* of the ascending-sorted sequence.
C11_P95IsOrderStatistic ==
    (StatsReduced /\ s_timings # <<>>) =>
        \E i \in DOMAIN s_timings :
            /\ IsOrderStatistic(s_timings, P95Index(Len(s_timings)), s_timings[i])
            /\ s_stats.value.p95 = InUnit(F(s_timings[i]))

\* 21 samples have been reduced and the p95 (index 19) is below the maximum
\* (index 20).
C11_Witness ==
    /\ StatsReduced
    /\ Len(s_timings) = 21
    /\ P95Index(Len(s_timings)) = 19
    /\ FLt(s_stats.value.p95, s_stats.value.max)

\* C12: for a non-empty duration sequence the statistics of both services
\* satisfy minimum <= average <= maximum and minimum <= p95 <= maximum.
C12_StatsOrdered ==
    (StatsReduced /\ s_timings # <<>>) =>
        /\ FLe(s_stats.value.min, s_stats.value.avg)
        /\ FLe(s_stats.value.avg, s_stats.value.max)
        /\ FLe(s_stats.value.min, s_stats.value.p95)
        /\ FLe(s_stats.value.p95, s_stats.value.max)

\* The proof service has reduced samples whose minimum, average and maximum
\* are three different values, the smallest sample not being the first.
C12_Witness ==
    /\ StatsReduced
    /\ s_endpoint = "zk_prove_bench"
    /\ Len(s_timings) >= 2
    /\ s_timings[1] > s_timings[Len(s_timings)]
    /\ FLt(s_stats.value.min, s_stats.value.avg)
    /\ FLt(s_stats.value.avg, s_stats.value.max)

\* C13: reducing the empty duration sequence yields, in both services,
\* statistics whose five fields are all 0 (the reduction itself never
\* fails: the state is Reduced).
C13_EmptyAllZero ==
    (s_pc = "Reduced" /\ s_timings = <<>>) =>
        /\ s_stats.computed
        /\ s_stats.value.avg = F(0)
        /\ s_stats.value.min = F(0)
        /\ s_stats.value.max = F(0)
        /\ s_stats.value.p95 = F(0)
        /\ s_stats.value.throughput = F(0)

\* The reported average, in microseconds.
AverageUs ==
    IF s_endpoint = "kem_bench" THEN s_stats.value.avg
    ELSE FDiv(s_stats.value.avg, Norm(1, 1000))

\* C14: for every duration sequence, throughput = 1,000,000 / average (in
\* microseconds) when average > 0 and 0 otherwise, in both services, so
\* that throughput = 0 if and only if average = 0.
C14_ThroughputFromAverage ==
    StatsReduced =>
        /\ s_stats.value.throughput =
               IF FGt(AverageUs, F(0)) THEN FDiv(F(1000000), AverageUs) ELSE F(0)
        /\ s_stats.value.throughput = F(0) <=> s_stats.value.avg = F(0)

Unrecorded == {k \in 1..Len(handles) : k > next_handle}

\* C16: a call's slot is released after its outcome has been recorded
\* (response appended or failure counted) and not before, so that at every
\* instant at most `concurrency` issued calls have no recorded outcome.
C16_SlotHeldUntilRecorded ==
    /\ \A k \in Unrecorded : task[handles[k]] # "finished"
    /\ Cardinality(Unrecorded) <= concurrency

\* The routine that ran times a call that can return Err (key generation
\* cannot), and that call failed in one of the iterations.
IterationFailed ==
    /\ s_pc \notin {"Idle", "Received"}
    /\ s_invoked.routine # "none"
    /\ s_invoked.op # "keygen"
    /\ s_env.fail_at \in 1..s_iterations

\* C17: a timed operation that fails in one iteration is caught for that
\* iteration only: the request is not aborted, the failing iteration
\* contributes no sample while the others do, and the request ends with a
\* response.
C17_IterationFailureCaught ==
    IterationFailed =>
        /\ s_pc # "Aborted"
        /\ Len(s_timings) = s_iterations - 1
        /\ s_pc = "Responded" => s_resp.status = STATUS_OK

\* C18: concurrency = 0 is accepted, and with requests >= 1 the orchestrator
\* stays blocked on the first acquire: no call is ever issued, no outcome
\* recorded and no result emitted; with requests = 0 the issuing loop is
\* skipped and the batch completes.
C18_ZeroConcurrencyBlocks ==
    /\ []((concurrency = 0 /\ requests >= 1) =>
            /\ pc = "issue"
            /\ permits = 0
            /\ handles = <<>>
            /\ \A t \in DOMAIN task : task[t] = "unspawned"
            /\ next_handle = 0
            /\ results = <<>>
            /\ errors = 0
            /\ bench_results = <<>>
            /\ output = <<>>)
    /\ (requests = 0) ~> (pc = "emitted" /\ Len(output) = 1)

\* A batch of at least one request was started with concurrency 0 and waits
\* for a permit of an empty semaphore.
C18_Witness ==
    /\ concurrency = 0
    /\ requests >= 1
    /\ pc = "issue"
    /\ permits = 0
    /\ Len(handles) < requests

====
